---- MODULE Spec2Model ----
(***************************************************************************)
(* Audio capture / transcription / solver pipeline of interview-coder.     *)
(*                                                                         *)
(* Several state machines share this module:                               *)
(*   SpecSvc  AudioService (renderer, services/audioService.ts) driving    *)
(*            AudioHelper.startRecording/stopRecording (main process)      *)
(*   SpecCap  the AudioCapture React component and the callback chain      *)
(*            AudioManager -> Queue                                        *)
(*   SpecTr   AudioHelper's remote transcription calls                     *)
(*   SpecCln  AudioHelper.cleanup and the scratch directory                *)
(*   SpecCfg  saving and loading the audio configuration                   *)
(*   SpecBr   AudioService.transcribeWithBrowser and its timers            *)
(*   SpecMime the choice of the recording format                           *)
(* Every asynchronous suspension point of the code (await, recorder event, *)
(* IPC round trip) is a separate action; a synchronous run of code between *)
(* two suspension points is one action.                                    *)
(***************************************************************************)
EXTENDS Integers, Sequences, FiniteSets, TLC

\* ------------------------------------------------------------------ bounds
\* streams/recorders that getUserMedia hands out in one run (ids 1..MaxSessions)
MaxSessions == 2
\* timeslice dataavailable events of a run (the data flushed by stop() is extra)
MaxSlices == 1
\* largest size of one recorded chunk; size 0 is an empty data event
MaxChunkSize == 1
\* IPC invocations of the helper's recording handlers made by other callers
MaxDirect == 1

SessionIds == 1..MaxSessions
ChunkSizes == 0..MaxChunkSize

\* ---------------------------------------------------------- error messages
\* An Error message is modelled as the sequence of its parts, so that
\* `Failed to start recording: ${error.message}` is a real wrapping.
ErrAlreadyRecording == <<"Recording is already in progress">>
ErrNotRecording == <<"No recording in progress">>
ErrGetUserMedia == <<"NotAllowedError">>
ErrInvalidState == <<"InvalidStateError">>
NoError == <<>>

WrapStartError(cause) == <<"Failed to start recording">> \o cause
WrapStopError(cause) == <<"Failed to stop recording">> \o cause

\* ------------------------------------------------------------------- state
VARIABLES
  \* AudioService fields
  svcIsRecording, svcStream, svcRecorder, svcChunks,
  \* the browser's MediaRecorder / MediaStream objects created for AudioService
  recState, recEvq, recOnstop, recSlices, trackLive, delivered, nextId,
  \* AudioService calls in flight and the outcome of the last finished call
  startPc, stopPc, startPre, stopPre, stopBlob, stopRec, svcLast,
  \* renderer -> main IPC requests not yet handled, and the environment
  ipcQ, hasElectron,
  \* AudioHelper fields, its clock and the outcome of its last call
  helperIsRecording, helperAudioFilePath, now, helperLast, directCalls,
  \* AudioCapture: React state
  isListening, isProcessing, error,
  \* AudioCapture: refs
  mediaStreamRef, audioContextRef, analyserRef, mediaRecorderRef, audioChunksRef,
  \* the browser objects created for AudioCapture, and pending getUserMedia calls
  capRecState, capRecEvq, capTrack, capCtx, capDelivered, capNextId, pendingGum,
  capSlices,
  \* processAudioBlob runs in flight (one per recorder) and what the last step did
  pipe, capEvent,
  \* AudioHelper transcription: the files of tempDir (0: absent, else the call
  \* that wrote it), the calls awaiting fetch, and what the last call reported
  tempFile, trCall, trNextCall, trLast

svcVars == <<svcIsRecording, svcStream, svcRecorder, svcChunks,
             recState, recEvq, recOnstop, recSlices, trackLive, delivered, nextId,
             startPc, stopPc, startPre, stopPre, stopBlob, stopRec, svcLast, ipcQ, hasElectron,
             helperIsRecording, helperAudioFilePath, helperLast, directCalls>>

capVars == <<isListening, isProcessing, error, mediaStreamRef, audioContextRef,
             analyserRef, mediaRecorderRef, audioChunksRef, capRecState, capRecEvq,
             capTrack, capCtx, capDelivered, capNextId, pendingGum, capSlices, pipe,
             capEvent>>

trVars == <<tempFile, trCall, trNextCall, trLast>>

VARIABLES
  \* AudioHelper.cleanup: the scratch directory and the clock
  tempDir, sweepNow, sweepTicks, cleanupLast,
  \* which directory this.tempDir names
  tempDirIs

clnVars == <<tempDir, sweepNow, sweepTicks, cleanupLast, tempDirIs>>

VARIABLES
  \* the audio configuration: the audioConfig slot of the application's
  \* configuration, the 'audioConfig' item of localStorage, the last save made
  \* by the settings panel and the last operation
  cfgSlot, lsItem, cfgSaves, lastSave, cfgLast

cfgVars == <<cfgSlot, lsItem, cfgSaves, lastSave, cfgLast>>

VARIABLES
  \* AudioService.transcribeWithBrowser: the promise it returns, the
  \* recognition object, its two timers, the renderer's clock, whether a
  \* recognition event has been delivered, and the last step
  brPromise, brRecog, brTimeout, brEndTimer, brNow, brHeard, brLast

brVars == <<brPromise, brRecog, brTimeout, brEndTimer, brNow, brHeard, brLast>>

VARIABLES
  \* the recording formats: the types MediaRecorder.isTypeSupported accepts,
  \* and for a session of AudioService and of AudioCapture the type chosen at
  \* start and the type of the blob built at stop
  mimeSupported, svcMime, capMime

mimeVars == <<mimeSupported, svcMime, capMime>>

vars == <<svcVars, now, capVars, trVars, clnVars, cfgVars, brVars, mimeVars>>

\* what the actions of one component leave alone
nonSvcVars == <<capVars, trVars, clnVars, cfgVars, brVars, mimeVars>>
nonCapVars == <<svcVars, now, trVars, clnVars, cfgVars, brVars, mimeVars>>
nonTrVars == <<svcVars, capVars, clnVars, cfgVars, brVars, mimeVars>>
nonClnVars == <<svcVars, now, capVars, trVars, cfgVars, brVars, mimeVars>>
nonCfgVars == <<svcVars, now, capVars, trVars, clnVars, brVars, mimeVars>>
nonBrVars == <<svcVars, now, capVars, trVars, clnVars, cfgVars, mimeVars>>
nonMimeVars == <<svcVars, now, capVars, trVars, clnVars, cfgVars, brVars>>

\* largest Date.now() value of a run
MaxNow == 2

EvStart == [t |-> "start", size |-> 0]
EvStop == [t |-> "stop", size |-> 0]
EvData == [t |-> "data", size |-> 0]

Chunk(r, n) == [rec |-> r, size |-> n]

\* the session fields of AudioService, for before/after comparisons
SvcSession == [stream |-> svcStream, recorder |-> svcRecorder,
               chunks |-> svcChunks, isRecording |-> svcIsRecording]
HelperSession == [isRecording |-> helperIsRecording, path |-> helperAudioFilePath]

NoCall == [op |-> "none"]

\* the recorder held by AudioService is recording
SessionActive == svcRecorder # 0 /\ recState[svcRecorder] = "recording"
\* what a call finds on entry: the isRecording flag and the recorder's state
Entry == [flag |-> svcIsRecording, active |-> SessionActive]
NoEntry == [flag |-> FALSE, active |-> FALSE]

SvcInit ==
  /\ svcIsRecording = FALSE
  /\ svcStream = 0
  /\ svcRecorder = 0
  /\ svcChunks = <<>>
  /\ recState = [r \in SessionIds |-> "none"]
  /\ recEvq = [r \in SessionIds |-> <<>>]
  /\ recOnstop = [r \in SessionIds |-> "flag"]
  /\ recSlices = 0
  /\ trackLive = [r \in SessionIds |-> FALSE]
  /\ delivered = [r \in SessionIds |-> <<>>]
  /\ nextId = 0
  /\ startPc = "idle"
  /\ stopPc = "idle"
  /\ startPre = NoEntry
  /\ stopPre = NoEntry
  /\ stopBlob = <<>>
  /\ stopRec = 0
  /\ svcLast = NoCall
  /\ ipcQ = <<>>
  /\ hasElectron \in BOOLEAN
  /\ helperIsRecording = FALSE
  /\ helperAudioFilePath = 0
  /\ now = 1
  /\ helperLast = NoCall
  /\ directCalls = 0

\* --------------------------------------------------- AudioService.cleanup
\* cleanup() stops the tracks of this.stream.  A MediaRecorder whose tracks
\* have all ended stops by itself: it becomes inactive and queues a last
\* dataavailable and a stop event.
TracksStopped(tl, s) == IF s # 0 THEN [tl EXCEPT ![s] = FALSE] ELSE tl
RecStateOnEnded(rs, s) ==
  IF s # 0 /\ rs[s] = "recording" THEN [rs EXCEPT ![s] = "inactive"] ELSE rs
RecEvqOnEnded(q, rs, s) ==
  IF s # 0 /\ rs[s] = "recording"
  THEN [q EXCEPT ![s] = @ \o <<EvData, EvStop>>] ELSE q

CleanedSession == [stream |-> 0, recorder |-> 0, chunks |-> <<>>, isRecording |-> FALSE]

\* cleanup() applied to the browser objects rs/q/tl; the service fields become
\* CleanedSession
cleanup(rs, q) ==
  /\ trackLive' = TracksStopped(trackLive, svcStream)
  /\ recState' = RecStateOnEnded(rs, svcStream)
  /\ recEvq' = RecEvqOnEnded(q, rs, svcStream)
  /\ svcStream' = 0
  /\ svcRecorder' = 0
  /\ svcChunks' = <<>>
  /\ svcIsRecording' = FALSE

\* what a call of AudioService reports: pre and active are the isRecording flag
\* and the state of the session's recorder when the call was made
SvcResult(op, entry, ok, err, blob, rec, before, after) ==
  [op |-> op, pre |-> entry.flag, active |-> entry.active, ok |-> ok, err |-> err,
   blob |-> blob, rec |-> rec, before |-> before, after |-> after]
HelperResult(op, pre, ok, err, after) ==
  [op |-> op, pre |-> pre, ok |-> ok, err |-> err,
   before |-> HelperSession, after |-> after]

\* ------------------------------------------------ guards of the four calls
\* `if (this.isRecording)` of AudioService.startRecording
SvcStartRejects == svcIsRecording
\* `if (!this.isRecording || !this.mediaRecorder)` of AudioService.stopRecording
SvcStopRejects == ~svcIsRecording \/ svcRecorder = 0
\* `if (this.isRecording)` of AudioHelper.startRecording
HelperStartRejects == helperIsRecording
\* `if (!this.isRecording)` of AudioHelper.stopRecording
HelperStopRejects == ~helperIsRecording

\* ------------------------------------------- AudioService.startRecording
\* entry up to `await getUserMedia`
SvcStartCall ==
  /\ startPc = "idle"
  /\ IF SvcStartRejects
     THEN /\ cleanup(recState, recEvq)
          /\ svcLast' = SvcResult("start", Entry, FALSE,
                                  WrapStartError(ErrAlreadyRecording), <<>>, 0,
                                  SvcSession, CleanedSession)
          /\ startPc' = "idle"
          /\ UNCHANGED startPre
     ELSE /\ startPc' = "gum"
          /\ startPre' = Entry
          /\ svcLast' = NoCall
          /\ UNCHANGED <<trackLive, recState, recEvq, svcStream, svcRecorder,
                         svcChunks, svcIsRecording>>
  /\ UNCHANGED <<recOnstop, recSlices, delivered, nextId, stopPc, stopPre, stopBlob,
                 stopRec, ipcQ, hasElectron, helperIsRecording, helperAudioFilePath,
                 now, directCalls>>
  /\ helperLast' = NoCall
  /\ UNCHANGED nonSvcVars

\* getUserMedia resolves: stream, recorder, handlers, start(1000), then the
\* notification of the main process (or the return, without electronAPI)
SvcGumResolve ==
  /\ startPc = "gum"
  /\ nextId < MaxSessions
  /\ LET s == nextId + 1 IN
     /\ nextId' = s
     /\ svcStream' = s
     /\ svcRecorder' = s
     /\ svcChunks' = <<>>
     /\ trackLive' = [trackLive EXCEPT ![s] = TRUE]
     /\ recState' = [recState EXCEPT ![s] = "recording"]
     /\ recEvq' = [recEvq EXCEPT ![s] = <<EvStart>>]
     /\ recOnstop' = [recOnstop EXCEPT ![s] = "flag"]
     /\ IF hasElectron
        THEN /\ ipcQ' = Append(ipcQ, "start")
             /\ startPc' = "ipc"
             /\ svcLast' = NoCall
             /\ UNCHANGED startPre
        ELSE /\ startPc' = "idle"
             /\ svcLast' = SvcResult("start", startPre, TRUE, NoError, <<>>, s,
                                     SvcSession, SvcSession)
             /\ startPre' = NoEntry
             /\ UNCHANGED ipcQ
  /\ UNCHANGED <<svcIsRecording, recSlices, delivered, stopPc, stopPre,
                 stopBlob, stopRec, hasElectron, helperIsRecording,
                 helperAudioFilePath, now, directCalls>>
  /\ helperLast' = NoCall
  /\ UNCHANGED nonSvcVars

\* getUserMedia rejects: catch -> cleanup -> throw
SvcGumReject ==
  /\ startPc = "gum"
  /\ cleanup(recState, recEvq)
  /\ svcLast' = SvcResult("start", startPre, FALSE, WrapStartError(ErrGetUserMedia),
                          <<>>, 0, SvcSession, CleanedSession)
  /\ startPc' = "idle"
  /\ startPre' = NoEntry
  /\ UNCHANGED <<recOnstop, recSlices, delivered, nextId, stopPc, stopPre,
                 stopBlob, stopRec, ipcQ, hasElectron, helperIsRecording,
                 helperAudioFilePath, now, directCalls>>
  /\ helperLast' = NoCall
  /\ UNCHANGED nonSvcVars

\* -------------------------------------------- AudioService.stopRecording
\* entry up to `this.mediaRecorder.stop()`
SvcStopCall ==
  /\ stopPc = "idle"
  /\ IF SvcStopRejects
     THEN /\ cleanup(recState, recEvq)
          /\ svcLast' = SvcResult("stop", Entry, FALSE,
                                  WrapStopError(ErrNotRecording), <<>>, svcRecorder,
                                  SvcSession, CleanedSession)
          /\ UNCHANGED <<stopPc, stopRec, recOnstop, stopPre>>
     ELSE IF recState[svcRecorder] = "recording"
     THEN /\ recOnstop' = [recOnstop EXCEPT ![svcRecorder] = "finalize"]
          /\ recState' = [recState EXCEPT ![svcRecorder] = "inactive"]
          /\ recEvq' = [recEvq EXCEPT ![svcRecorder] = @ \o <<EvData, EvStop>>]
          /\ stopPc' = "event"
          /\ stopRec' = svcRecorder
          /\ stopPre' = Entry
          /\ svcLast' = NoCall
          /\ UNCHANGED <<trackLive, svcStream, svcRecorder, svcChunks, svcIsRecording>>
     ELSE \* stop() on an inactive recorder throws inside the Promise executor
          /\ recOnstop' = [recOnstop EXCEPT ![svcRecorder] = "finalize"]
          /\ svcLast' = SvcResult("stop", Entry, FALSE, ErrInvalidState, <<>>,
                                  svcRecorder, SvcSession, SvcSession)
          /\ UNCHANGED <<trackLive, recState, recEvq, svcStream, svcRecorder,
                         svcChunks, svcIsRecording, stopPc, stopRec, stopPre>>
  /\ UNCHANGED <<recSlices, delivered, nextId, startPc, startPre, stopBlob, ipcQ,
                 hasElectron, helperIsRecording, helperAudioFilePath, now,
                 directCalls>>
  /\ helperLast' = NoCall
  /\ UNCHANGED nonSvcVars

\* ------------------------------------------------------- recorder events
\* mediaRecorder.ondataavailable: non-empty data is pushed onto this.audioChunks
OnDataAvailable(chunks, r, n) ==
  IF n > 0 THEN Append(chunks, Chunk(r, n)) ELSE chunks

\* a timeslice elapses on a recording recorder (after its start event)
RecorderSlice(r) ==
  /\ recState[r] = "recording"
  /\ recEvq[r] = <<>>
  /\ recSlices < MaxSlices
  /\ \E n \in ChunkSizes :
       /\ svcChunks' = OnDataAvailable(svcChunks, r, n)
       /\ delivered' = [delivered EXCEPT ![r] = OnDataAvailable(@, r, n)]
  /\ recSlices' = recSlices + 1
  /\ svcLast' = NoCall
  /\ UNCHANGED <<svcIsRecording, svcStream, svcRecorder, recState, recEvq, recOnstop,
                 trackLive, nextId, startPc, stopPc, startPre, stopPre, stopBlob,
                 stopRec, ipcQ, hasElectron, helperIsRecording,
                 helperAudioFilePath, now, directCalls>>
  /\ helperLast' = NoCall
  /\ UNCHANGED nonSvcVars

\* the next queued event of recorder r is dispatched to its handler
RecorderEvent(r) ==
  /\ recEvq[r] # <<>>
  /\ LET ev == Head(recEvq[r])
         q == [recEvq EXCEPT ![r] = Tail(@)]
     IN
     CASE ev.t = "start" ->
            \* onstart
            /\ svcIsRecording' = TRUE
            /\ recEvq' = q
            /\ UNCHANGED <<svcStream, svcRecorder, svcChunks, recState, recSlices,
                           trackLive, delivered, stopPc, stopBlob, ipcQ,
                           stopPre, stopRec>>
            /\ svcLast' = NoCall
       [] ev.t = "data" ->
            \* the data flushed by stop() or by the tracks ending
            /\ \E n \in ChunkSizes :
                 /\ svcChunks' = OnDataAvailable(svcChunks, r, n)
                 /\ delivered' = [delivered EXCEPT ![r] = OnDataAvailable(@, r, n)]
            /\ UNCHANGED recSlices
            /\ recEvq' = q
            /\ UNCHANGED <<svcIsRecording, svcStream, svcRecorder, recState,
                           trackLive, stopPc, stopBlob, ipcQ, stopPre, stopRec>>
            /\ svcLast' = NoCall
       [] ev.t = "stop" /\ recOnstop[r] = "flag" ->
            \* the onstop installed by startRecording
            /\ svcIsRecording' = FALSE
            /\ recEvq' = q
            /\ UNCHANGED <<svcStream, svcRecorder, svcChunks, recState, recSlices,
                           trackLive, delivered, stopPc, stopBlob, ipcQ,
                           stopPre, stopRec>>
            /\ svcLast' = NoCall
       [] ev.t = "stop" /\ recOnstop[r] = "finalize" ->
            \* the onstop installed by stopRecording: blob, cleanup, notify, resolve
            /\ cleanup(recState, q)
            /\ IF hasElectron
               THEN /\ ipcQ' = Append(ipcQ, "stop")
                    /\ stopBlob' = svcChunks
                    /\ stopPc' = "ipc"
                    /\ svcLast' = NoCall
                    /\ UNCHANGED <<stopPre, stopRec>>
               ELSE /\ svcLast' = SvcResult("stop", stopPre, TRUE, NoError, svcChunks, r,
                                            SvcSession, CleanedSession)
                    /\ stopPc' = "idle"
                    /\ stopPre' = NoEntry
                    /\ stopRec' = 0
                    /\ UNCHANGED <<ipcQ, stopBlob>>
            /\ UNCHANGED <<recSlices, delivered>>
  /\ UNCHANGED <<recOnstop, nextId, startPc, startPre, hasElectron,
                 helperIsRecording, helperAudioFilePath, now, directCalls>>
  /\ helperLast' = NoCall
  /\ UNCHANGED nonSvcVars

\* ------------------------------- AudioHelper.startRecording/stopRecording
\* the helper's state after the call, and its result
HelperStart(t) ==
  IF HelperStartRejects
  THEN HelperResult("start", helperIsRecording, FALSE, ErrAlreadyRecording, HelperSession)
  ELSE HelperResult("start", helperIsRecording, TRUE, NoError,
                    [isRecording |-> TRUE, path |-> t])
HelperStop ==
  IF HelperStopRejects
  THEN HelperResult("stop", helperIsRecording, FALSE, ErrNotRecording, HelperSession)
  ELSE HelperResult("stop", helperIsRecording, TRUE, NoError,
                    [isRecording |-> FALSE, path |-> 0])

HelperApply(res) ==
  /\ helperLast' = res
  /\ helperIsRecording' = res.after.isRecording
  /\ helperAudioFilePath' = res.after.path

\* the main process handles the oldest IPC request and the awaiting renderer
\* call resumes with the answer
MainHandleIpc ==
  /\ ipcQ # <<>>
  /\ ipcQ' = Tail(ipcQ)
  /\ IF Head(ipcQ) = "start"
     THEN LET res == HelperStart(now) IN
            /\ HelperApply(res)
            /\ startPc' = "idle"
            /\ IF res.ok
               THEN /\ svcLast' = SvcResult("start", startPre, TRUE, NoError, <<>>,
                                            svcRecorder, SvcSession, SvcSession)
                    /\ UNCHANGED <<trackLive, recState, recEvq, svcStream, svcRecorder,
                                   svcChunks, svcIsRecording>>
               ELSE /\ cleanup(recState, recEvq)
                    /\ svcLast' = SvcResult("start", startPre, FALSE,
                                            WrapStartError(res.err), <<>>, 0,
                                            SvcSession, CleanedSession)
            /\ startPre' = NoEntry
            /\ UNCHANGED <<stopPc, stopPre, stopBlob, stopRec>>
     ELSE LET res == HelperStop IN
          /\ HelperApply(res)
          /\ stopPc' = "idle"
          /\ svcLast' = IF res.ok
                        THEN SvcResult("stop", stopPre, TRUE, NoError, stopBlob, stopRec,
                                       SvcSession, SvcSession)
                        ELSE SvcResult("stop", stopPre, FALSE, res.err, <<>>, stopRec,
                                       SvcSession, SvcSession)
          /\ stopPre' = NoEntry
          /\ stopBlob' = <<>>
          /\ stopRec' = 0
          /\ UNCHANGED <<trackLive, recState, recEvq, svcStream, svcRecorder, svcChunks,
                         svcIsRecording, startPc, startPre>>
  /\ UNCHANGED <<recOnstop, recSlices, delivered, nextId, hasElectron, directCalls, now>>
  /\ UNCHANGED nonSvcVars

\* another caller invokes 'audio:start-recording' / 'audio:stop-recording'
HelperDirect ==
  /\ directCalls < MaxDirect
  /\ directCalls' = directCalls + 1
  /\ \E op \in {"start", "stop"} :
       IF op = "start" THEN HelperApply(HelperStart(now)) ELSE HelperApply(HelperStop)
  /\ UNCHANGED <<now, svcIsRecording, svcStream, svcRecorder, svcChunks, recState, recEvq,
                 recOnstop, recSlices, trackLive, delivered, nextId, startPc, stopPc,
                 startPre, stopPre, stopBlob, stopRec, ipcQ, hasElectron>>
  /\ svcLast' = NoCall
  /\ UNCHANGED nonSvcVars

SvcNext ==
  \/ SvcStartCall
  \/ SvcGumResolve
  \/ SvcGumReject
  \/ SvcStopCall
  \/ \E r \in SessionIds : RecorderSlice(r)
  \/ \E r \in SessionIds : RecorderEvent(r)
  \/ MainHandleIpc
  \/ HelperDirect


\* ======================================================== AudioCapture.tsx
\* streams/recorders that getUserMedia hands out to AudioCapture in one run
MaxCapSessions == 2
\* startListening calls that may be waiting for getUserMedia at once
MaxPending == 1
\* timeslice dataavailable events of a run of AudioCapture
MaxCapSlices == 1

CapIds == 1..MaxCapSessions

Null == <<>>

\* ---------------------------------------------------------- transcripts
\* A transcript is a sequence of characters; " " is whitespace.
Transcripts == {<<>>, <<" ">>, <<" ", "q">>}

RECURSIVE TrimStart(_)
TrimStart(t) == IF t # <<>> /\ Head(t) = " " THEN TrimStart(Tail(t)) ELSE t
RECURSIVE TrimEnd(_)
TrimEnd(t) ==
  IF t # <<>> /\ t[Len(t)] = " " THEN TrimEnd(SubSeq(t, 1, Len(t) - 1)) ELSE t
\* a trim that strips nothing
Trim_Identity(t) == t

\* String.prototype.trim
Trim(t) == TrimEnd(TrimStart(t))

\* ------------------------------------------------------ the solver chain
\* What ProcessingHelper.processTextQuestion does with a transcript: it returns a
\* result with a solution, a failure result with an error message (possibly
\* empty), or it throws.  "nohelper" is AudioHelper built without a helper.
Solutions == {<<"solution">>}
SolverErrors == {<<>>, <<"rate limited">>}
NoSolution == <<>>

SolverOutcomes ==
  { [kind |-> "ok", solution |-> s, error |-> Null] : s \in Solutions }
    \cup { [kind |-> "fail", solution |-> NoSolution, error |-> m] : m \in SolverErrors }
    \cup { [kind |-> "throw", solution |-> NoSolution, error |-> <<"network down">>],
           [kind |-> "nohelper", solution |-> NoSolution, error |-> Null] }

\* the 'audio:process-question' invocation itself rejects
Rejected == [kind |-> "reject", solution |-> NoSolution, error |-> Null]

\* AudioHelper.processVoiceQuestion: the helper's result is returned as it is;
\* without a helper a placeholder solution is returned; a throw is rethrown
\* wrapped.
processVoiceQuestion(transcript, out) ==
  CASE out.kind = "nohelper" ->
         [threw |-> FALSE, success |-> TRUE,
          solution |-> <<"placeholder">> \o transcript, error |-> Null]
    [] out.kind = "throw" ->
         [threw |-> TRUE, success |-> FALSE, solution |-> NoSolution,
          error |-> <<"Failed to process voice question">> \o out.error]
    [] OTHER ->
         [threw |-> FALSE, success |-> out.kind = "ok", solution |-> out.solution,
          error |-> out.error]

\* the 'audio:process-question' IPC handler: a throw becomes a failure result
ProcessQuestionIpc(transcript, out) ==
  LET r == processVoiceQuestion(transcript, out)
  IN IF r.threw THEN [r EXCEPT !.threw = FALSE] ELSE r

\* window.electronAPI.audio.processQuestion as the renderer sees it settle:
\* the handler's result, or a rejection of the invocation
processQuestion(transcript, out) ==
  IF out = Rejected
  THEN [threw |-> TRUE, success |-> FALSE, solution |-> NoSolution, error |-> Null]
  ELSE ProcessQuestionIpc(transcript, out)

\* Queue.handleAudioQuestionProcessed: hands the solution to the parent's
\* callback when there is one and switches the view; a throwing parent is
\* caught here.
Parents == {"none", "ok", "throws"}
handleAudioQuestionProcessed(solution, parent) ==
  [atQueue |-> <<solution>>,
   atParent |-> IF parent = "none" THEN <<>> ELSE <<solution>>,
   view |-> IF parent = "throws" THEN "queue" ELSE "solutions",
   threw |-> FALSE]

\* a manager that swallows the solution
handleQuestionProcessed_Drops(solution, parent) ==
  [atManager |-> <<solution>>, atQueue |-> <<>>, atParent |-> <<>>,
   view |-> "queue", threw |-> FALSE]

\* AudioManager.handleQuestionProcessed: onQuestionProcessed?.(solution)
handleQuestionProcessed(solution, parent) ==
  [atManager |-> <<solution>>] @@ handleAudioQuestionProcessed(solution, parent)

NoChain == [atCapture |-> <<>>, atManager |-> <<>>, atQueue |-> <<>>,
            atParent |-> <<>>, view |-> "queue", threw |-> FALSE]

\* a handler that reports every solver failure with the generic message
OnProcessResult_Generic(res, parent) ==
  IF ~res.threw /\ res.success
  THEN [setErr |-> Null,
        chain |-> [atCapture |-> <<res.solution>>]
                    @@ handleQuestionProcessed(res.solution, parent)]
  ELSE [setErr |-> <<"Failed to process question">>, chain |-> NoChain]

\* a handler that hands up whatever the solver returned, success or not
OnProcessResult_AlwaysUp(res, parent) ==
  [setErr |-> Null,
   chain |-> [atCapture |-> <<res.solution>>]
               @@ handleQuestionProcessed(res.solution, parent)]

\* AudioCapture on the result of processQuestion (or on its rejection):
\* the error it sets (Null: none) and the callbacks that ran.
OnProcessResult(res, parent) ==
  IF res.threw
  THEN [setErr |-> <<"Failed to process question">>, chain |-> NoChain]
  ELSE IF res.success
  THEN LET up == [atCapture |-> <<res.solution>>]
                   @@ handleQuestionProcessed(res.solution, parent)
       IN [setErr |-> IF up.threw THEN <<"Failed to process question result">> ELSE Null,
           chain |-> up]
  ELSE [setErr |-> IF res.error # Null THEN res.error
                   ELSE <<"Failed to process question">>,
        chain |-> NoChain]

\* AudioCapture on the result of transcribeAudio: the error it sets
OnTranscribeFailure(res) ==
  IF res.error # Null THEN res.error ELSE <<"Transcription failed">>

\* ------------------------------------------------- AudioCapture: state
IdlePipe == [pc |-> "idle", text |-> <<>>, calls |-> <<>>]
NoCapEvent == [op |-> "none"]

CapInit ==
  /\ isListening = FALSE
  /\ isProcessing = FALSE
  /\ error = Null
  /\ mediaStreamRef = 0
  /\ audioContextRef = 0
  /\ analyserRef = 0
  /\ mediaRecorderRef = 0
  /\ audioChunksRef = <<>>
  /\ capRecState = [r \in CapIds |-> "none"]
  /\ capRecEvq = [r \in CapIds |-> <<>>]
  /\ capTrack = [r \in CapIds |-> FALSE]
  /\ capCtx = [r \in CapIds |-> "none"]
  /\ capDelivered = [r \in CapIds |-> <<>>]
  /\ capNextId = 0
  /\ pendingGum = 0
  /\ capSlices = 0
  /\ pipe = [r \in CapIds |-> IdlePipe]
  /\ capEvent = NoCapEvent

\* processAudioBlob runs that have started and not yet finished
InFlight == {r \in CapIds : pipe[r].pc # "idle"}

\* ------------------------------------- startListening, up to its await
startListening ==
  /\ pendingGum < MaxPending
  /\ error' = Null
  /\ isListening' = TRUE
  /\ audioChunksRef' = <<>>
  /\ pendingGum' = pendingGum + 1
  /\ capEvent' = [op |-> "start", processing |-> isProcessing,
                  inFlight |-> InFlight]
  /\ UNCHANGED <<isProcessing, mediaStreamRef, audioContextRef, analyserRef,
                 mediaRecorderRef, capRecState, capRecEvq, capTrack, capCtx,
                 capDelivered, capNextId, capSlices, pipe>>

\* --------------------------------------------------------- stopListening
\* The recorders that stop: the one in mediaRecorderRef when it is not
\* inactive, and a recording one whose stream's tracks are stopped here.
StopTargets ==
  {r \in CapIds : capRecState[r] = "recording"
                    /\ (r = mediaRecorderRef \/ r = mediaStreamRef)}

stopListening ==
  /\ isListening' = FALSE
  /\ capRecState' = [r \in CapIds |->
                       IF r \in StopTargets THEN "inactive" ELSE capRecState[r]]
  /\ capRecEvq' = [r \in CapIds |->
                     IF r \in StopTargets THEN capRecEvq[r] \o <<EvData, EvStop>>
                     ELSE capRecEvq[r]]
  /\ capTrack' = IF mediaStreamRef # 0
                 THEN [capTrack EXCEPT ![mediaStreamRef] = FALSE] ELSE capTrack
  /\ capCtx' = IF audioContextRef # 0
               THEN [capCtx EXCEPT ![audioContextRef] = "closed"] ELSE capCtx
  /\ mediaStreamRef' = 0
  /\ audioContextRef' = 0
  /\ analyserRef' = 0
  /\ mediaRecorderRef' = 0
  /\ capEvent' = [op |-> "stopListening"]
  /\ UNCHANGED <<isProcessing, error, audioChunksRef, capDelivered, capNextId,
                 pendingGum, capSlices, pipe>>

handleStartInterview == IF ~isListening THEN startListening ELSE stopListening

\* the button: disabled={isProcessing}
Click ==
  /\ ~isProcessing
  /\ handleStartInterview
  /\ UNCHANGED nonCapVars

\* 'audio:toggle-recording'
handleToggleRecording ==
  /\ handleStartInterview
  /\ UNCHANGED nonCapVars

\* 'audio:quick-voice-question'
handleQuickVoiceQuestion ==
  /\ ~isListening /\ ~isProcessing
  /\ handleStartInterview
  /\ UNCHANGED nonCapVars

\* ------------------------------ startListening, after getUserMedia settles
\* where the rest of startListening may throw: nowhere, at new AudioContext,
\* or at new MediaRecorder
StartFailures == {"none", "context", "recorder"}
ErrStartThrew == <<"NotSupportedError">>

CapGumResolve ==
  /\ pendingGum > 0
  /\ capNextId < MaxCapSessions
  /\ LET s == capNextId + 1 IN
     \E fail \in StartFailures :
       /\ capNextId' = s
       /\ pendingGum' = pendingGum - 1
       /\ capTrack' = [capTrack EXCEPT ![s] = TRUE]
       /\ mediaStreamRef' = s
       /\ IF fail = "context"
          THEN UNCHANGED <<audioContextRef, analyserRef, capCtx>>
          ELSE /\ audioContextRef' = s
               /\ analyserRef' = s
               /\ capCtx' = [capCtx EXCEPT ![s] = "open"]
       /\ mediaRecorderRef' = IF fail = "none" THEN s ELSE mediaRecorderRef
       /\ capRecState' = [capRecState EXCEPT ![s] =
                            IF fail = "none" THEN "recording" ELSE "none"]
       /\ IF fail = "none"
          THEN UNCHANGED <<error, isListening>>
          ELSE /\ error' = ErrStartThrew
               /\ isListening' = FALSE
       /\ capEvent' = [op |-> "gum", rec |-> s, fail |-> fail]
  /\ UNCHANGED <<isProcessing, audioChunksRef, capRecEvq, capDelivered, capSlices,
                 pipe>>
  /\ UNCHANGED nonCapVars

\* getUserMedia rejects: the catch block of startListening
CapGumReject ==
  /\ pendingGum > 0
  /\ pendingGum' = pendingGum - 1
  /\ error' = ErrGetUserMedia
  /\ isListening' = FALSE
  /\ capEvent' = [op |-> "gum", rec |-> 0, fail |-> "getUserMedia"]
  /\ UNCHANGED <<isProcessing, mediaStreamRef, audioContextRef, analyserRef,
                 mediaRecorderRef, audioChunksRef, capRecState, capRecEvq, capTrack,
                 capCtx, capDelivered, capNextId, capSlices, pipe>>
  /\ UNCHANGED nonCapVars

\* --------------------------------------------- AudioCapture: the recorder
\* a timeslice elapses: mediaRecorder.ondataavailable
CapRecorderSlice(r) ==
  /\ capRecState[r] = "recording"
  /\ capSlices < MaxCapSlices
  /\ capSlices' = capSlices + 1
  /\ \E n \in ChunkSizes :
       /\ audioChunksRef' = OnDataAvailable(audioChunksRef, r, n)
       /\ capDelivered' = [capDelivered EXCEPT ![r] = OnDataAvailable(@, r, n)]
       /\ capEvent' = [op |-> "data", rec |-> r, size |-> n]
  /\ UNCHANGED <<isListening, isProcessing, error, mediaStreamRef, audioContextRef,
                 analyserRef, mediaRecorderRef, capRecState, capRecEvq, capTrack,
                 capCtx, capNextId, pendingGum, pipe>>
  /\ UNCHANGED nonCapVars

\* the recorder fails while recording: mediaRecorder.onerror runs, and the
\* recorder stops (a last dataavailable, then stop)
CapRecorderError(r) ==
  /\ capRecState[r] = "recording"
  /\ capRecState' = [capRecState EXCEPT ![r] = "inactive"]
  /\ capRecEvq' = [capRecEvq EXCEPT ![r] = @ \o <<EvData, EvStop>>]
  /\ error' = <<"Recording failed">>
  /\ isListening' = FALSE
  /\ isProcessing' = FALSE
  /\ capEvent' = [op |-> "onerror", rec |-> r]
  /\ UNCHANGED <<mediaStreamRef, audioContextRef, analyserRef, mediaRecorderRef,
                 audioChunksRef, capTrack, capCtx, capDelivered, capNextId,
                 pendingGum, capSlices, pipe>>
  /\ UNCHANGED nonCapVars

\* the next queued event of recorder r: ondataavailable or onstop.  onstop
\* either starts processAudioBlob (up to reader.readAsDataURL) or reports an
\* empty capture.
CapRecorderEvent(r) ==
  /\ capRecEvq[r] # <<>>
  /\ capRecEvq' = [capRecEvq EXCEPT ![r] = Tail(@)]
  /\ IF Head(capRecEvq[r]).t = "data"
     THEN /\ \E n \in ChunkSizes :
               /\ audioChunksRef' = OnDataAvailable(audioChunksRef, r, n)
               /\ capDelivered' = [capDelivered EXCEPT ![r] = OnDataAvailable(@, r, n)]
               /\ capEvent' = [op |-> "data", rec |-> r, size |-> n]
          /\ UNCHANGED <<isProcessing, error, pipe>>
     ELSE /\ IF Len(audioChunksRef) > 0
             THEN /\ isProcessing' = TRUE
                  /\ error' = Null
                  /\ pipe' = [pipe EXCEPT ![r] = [IdlePipe EXCEPT !.pc = "read"]]
             ELSE /\ error' = <<"No audio data captured">>
                  /\ isProcessing' = FALSE
                  /\ UNCHANGED pipe
          /\ capEvent' = [op |-> "onstop", rec |-> r, blob |-> audioChunksRef,
                          piped |-> Len(audioChunksRef) > 0,
                          inFlight |-> InFlight]
          /\ UNCHANGED <<audioChunksRef, capDelivered>>
  /\ UNCHANGED <<isListening, mediaStreamRef, audioContextRef, analyserRef,
                 mediaRecorderRef, capRecState, capTrack, capCtx, capNextId,
                 pendingGum, capSlices>>
  /\ UNCHANGED nonCapVars

\* ------------------------------------------ processAudioBlob, step by step
\* what a finished run reports: the stage it ended in, the transcript it got,
\* the IPC calls and callbacks it made, the error it set (Null: none), the
\* solver's outcome and the solution as each component received it; tr is how
\* transcribeAudio settled ("none": it was not called)
NoOutcome == [kind |-> "none", solution |-> NoSolution, error |-> Null]

Finished(r, stage, tr, text, calls, setErr, out, chain) ==
  [op |-> "finished", rec |-> r, stage |-> stage, tr |-> tr, text |-> text,
   calls |-> calls, setErr |-> setErr, out |-> out, chain |-> chain]

\* a run that ends without its finally block
Finish_NoFinally(r, stage, tr, text, calls, setErr, out, chain) ==
  /\ error' = IF setErr # Null THEN setErr ELSE error
  /\ UNCHANGED isProcessing
  /\ pipe' = [pipe EXCEPT ![r] = IdlePipe]
  /\ capEvent' = Finished(r, stage, tr, text, calls, setErr, out, chain)

\* the run of recorder r ends: the error it sets, finally setIsProcessing(false)
Finish(r, stage, tr, text, calls, setErr, out, chain) ==
  /\ error' = IF setErr # Null THEN setErr ELSE error
  /\ isProcessing' = FALSE
  /\ pipe' = [pipe EXCEPT ![r] = IdlePipe]
  /\ capEvent' = Finished(r, stage, tr, text, calls, setErr, out, chain)

PipeFrame ==
  /\ UNCHANGED <<isListening, mediaStreamRef, audioContextRef, analyserRef,
                 mediaRecorderRef, audioChunksRef, capRecState, capRecEvq, capTrack,
                 capCtx, capDelivered, capNextId, pendingGum, capSlices>>
  /\ UNCHANGED nonCapVars

\* the FileReader settles: reader.onerror, or reader.onload up to the await
\* of transcribeAudio (which may be missing from window.electronAPI)
ReaderOutcomes == {"error", "unavailable", "loaded"}
ReaderSettles(r) ==
  /\ pipe[r].pc = "read"
  /\ \E o \in ReaderOutcomes :
       CASE o = "error" ->
              Finish(r, "read", "none", <<>>, <<>>, <<"Failed to read audio file">>,
                     NoOutcome, NoChain)
         [] o = "unavailable" ->
              Finish(r, "read", "none", <<>>, <<>>, <<"Audio transcription not available">>,
                     NoOutcome, NoChain)
         [] o = "loaded" ->
              /\ pipe' = [pipe EXCEPT ![r].pc = "transcribe",
                                      ![r].calls = <<"transcribeAudio">>]
              /\ capEvent' = NoCapEvent
              /\ UNCHANGED <<error, isProcessing>>
  /\ PipeFrame

\* transcribeAudio settles: a transcript, a failure result, or a rejection
TranscribeErrors == {<<>>, <<"OpenAI API error", "401", "Unauthorized">>}
TranscribeOutcomes ==
  { [kind |-> "ok", transcript |-> t, error |-> Null] : t \in Transcripts }
    \cup { [kind |-> "fail", transcript |-> <<>>, error |-> e] : e \in TranscribeErrors }
    \cup { [kind |-> "reject", transcript |-> <<>>, error |-> Null] }

TranscribeSettles(r) ==
  /\ pipe[r].pc = "transcribe"
  /\ \E res \in TranscribeOutcomes :
       LET calls == Append(pipe[r].calls, "onTranscriptionComplete") IN
       CASE res.kind = "ok" /\ Trim(res.transcript) # <<>> ->
              /\ pipe' = [pipe EXCEPT ![r] = [pc |-> "config", text |-> res.transcript,
                                              calls |-> Append(calls, "loadConfig")]]
              /\ capEvent' = NoCapEvent
              /\ UNCHANGED <<error, isProcessing>>
         [] res.kind = "ok" /\ Trim(res.transcript) = <<>> ->
              Finish(r, "transcribe", "ok", res.transcript, calls, Null, NoOutcome, NoChain)
         [] res.kind = "fail" ->
              Finish(r, "transcribe", "fail", <<>>, pipe[r].calls, OnTranscribeFailure(res),
                     NoOutcome, NoChain)
         [] res.kind = "reject" ->
              Finish(r, "transcribe", "reject", <<>>, pipe[r].calls,
                     <<"Failed to process audio">>,
                     NoOutcome, NoChain)
  /\ PipeFrame

\* loadConfig settles
ConfigSettles(r) ==
  /\ pipe[r].pc = "config"
  /\ \E ok \in BOOLEAN :
       IF ok
       THEN /\ pipe' = [pipe EXCEPT ![r].pc = "solve",
                                    ![r].calls = Append(@, "processQuestion")]
            /\ capEvent' = NoCapEvent
            /\ UNCHANGED <<error, isProcessing>>
       ELSE Finish(r, "config", "ok", pipe[r].text, pipe[r].calls,
                   <<"Failed to process question">>, NoOutcome, NoChain)
  /\ PipeFrame

\* processQuestion settles: the main process ran the solver on the transcript,
\* or the IPC call itself rejected
SolveSettles(r) ==
  /\ pipe[r].pc = "solve"
  /\ \E out \in SolverOutcomes \cup {Rejected} :
       LET res == processQuestion(pipe[r].text, out) IN
       \E parent \in IF res.success THEN Parents ELSE {"none"} :
         LET h == OnProcessResult(res, parent)
         IN Finish(r, "solve", "ok", pipe[r].text, pipe[r].calls, h.setErr, out, h.chain)
  /\ PipeFrame

CapNext ==
  \/ Click
  \/ handleToggleRecording
  \/ handleQuickVoiceQuestion
  \/ CapGumResolve
  \/ CapGumReject
  \/ \E r \in CapIds : CapRecorderSlice(r)
  \/ \E r \in CapIds : CapRecorderError(r)
  \/ \E r \in CapIds : CapRecorderEvent(r)
  \/ \E r \in CapIds : ReaderSettles(r)
  \/ \E r \in CapIds : TranscribeSettles(r)
  \/ \E r \in CapIds : ConfigSettles(r)
  \/ \E r \in CapIds : SolveSettles(r)

\* ============================================ AudioHelper: transcription
\* transcription calls of one run (ids 1..MaxCalls)
MaxCalls == 2
MaxSweepTicks == 2
MaxSaves == 2
BrStep == 5000
CallIds == 1..MaxCalls

\* what configHelper.loadConfig() returns: the stored API key ("": none) and
\* the stored language
StoredConfigs == {[apiKey |-> k, language |-> <<"python">>] : k \in {"", "sk-key"}}
\* the AudioConfig a caller of 'audio:transcribe' passes
Languages == {<<"en", "-", "GB">>, <<"fr">>}
AudioConfigs ==
  {[speechProvider |-> p, language |-> l] : p \in {"whisper", "browser"}, l \in Languages}

RECURSIVE PrimarySubtag(_)
\* language.split('-')[0]
PrimarySubtag(l) ==
  IF l = <<>> \/ Head(l) = "-" THEN <<>> ELSE <<Head(l)>> \o PrimarySubtag(Tail(l))

\* the temporary file of a call made at time t
TempPath(t, ext) == [t |-> t, ext |-> ext]
TempPaths == {TempPath(t, e) : t \in 1..MaxNow, e \in {"webm", "wav"}}

\* how the speech endpoint answers one request: a status with a body (the
\* error text, or the text field of the JSON), or no answer at all
HttpStatuses == {200, 401, 500}
HttpResponses ==
  {[kind |-> "status", status |-> 200, body |-> t] : t \in Transcripts}
    \cup {[kind |-> "status", status |-> st, body |-> <<"Unauthorized">>] :
            st \in HttpStatuses \ {200}}
    \cup {[kind |-> "network", status |-> 0, body |-> <<"ECONNRESET">>]}

\* a response that lets every status through
ResponseOk_Always(status) == TRUE

\* response.ok
ResponseOk(status) == status >= 200 /\ status <= 299

\* `OpenAI API error: ${response.status} ${errorText}`
UpstreamError(resp) == <<"OpenAI API error", ToString(resp.status)>> \o resp.body

\* the Error thrown inside the try block once fetch has settled (Null: none)
FetchError(resp) ==
  CASE resp.kind = "network" -> resp.body
    [] ~ResponseOk(resp.status) -> UpstreamError(resp)
    [] OTHER -> Null

\* a key check that lets an empty key through
MissingKey_Never(config) == FALSE

\* `if (!openaiApiKey)`
MissingKey(config) == config.apiKey = ""

NoPath == TempPath(0, "none")
NoTrCall == [pc |-> "idle", via |-> "none", path |-> NoPath,
             key |-> "", language |-> <<>>, asked |-> <<>>, reqs |-> 0]
NoTrEvent == [op |-> "none"]

TrInit ==
  /\ tempFile = [p \in TempPaths |-> 0]
  /\ trCall = [c \in CallIds |-> NoTrCall]
  /\ trNextCall = 0
  /\ trLast = NoTrEvent

\* what a settled call reports: the response it got (NoResponse: no request
\* was answered), its result or the error it threw, the requests it issued,
\* the API key it read and the temporary file it wrote (NoPath: none)
NoResponse == [kind |-> "none", status |-> 0, body |-> <<>>]
TrDone(c, via, resp, ok, threw, err, text, reqs, lang, key, path) ==
  [op |-> "done", call |-> c, via |-> via, resp |-> resp, ok |-> ok, threw |-> threw,
   error |-> err, transcript |-> text, reqs |-> reqs, language |-> lang,
   key |-> key, path |-> path]

\* Date.now() advances
Tick ==
  /\ now < MaxNow
  /\ now' = now + 1
  /\ trLast' = NoTrEvent
  /\ UNCHANGED <<tempFile, trCall, trNextCall>>
  /\ UNCHANGED nonTrVars

\* 'audio:transcribe-audio': transcribeAudioFromBase64 up to its await of fetch
TranscribeBase64Call ==
  /\ trNextCall < MaxCalls
  /\ trNextCall' = trNextCall + 1
  /\ LET c == trNextCall + 1 IN
     \E config \in StoredConfigs :
       IF MissingKey(config)
       THEN /\ trLast' = TrDone(c, "base64", NoResponse, FALSE, FALSE,
                                <<"OpenAI API key is required for transcription">>,
                                <<>>, 0, <<>>, config.apiKey, NoPath)
            /\ UNCHANGED <<tempFile, trCall>>
       ELSE /\ tempFile' = [tempFile EXCEPT ![TempPath(now, "webm")] = c]
            /\ trCall' = [trCall EXCEPT ![c] =
                            [pc |-> "fetch", via |-> "base64",
                             path |-> TempPath(now, "webm"), key |-> config.apiKey,
                             language |-> <<>>, asked |-> <<>>, reqs |-> 1]]
            /\ trLast' = NoTrEvent
  /\ UNCHANGED now
  /\ UNCHANGED nonTrVars

\* 'audio:transcribe': transcribeAudio and transcribeWithWhisper up to the
\* await of fetch.  The configuration read inside transcribeWithWhisper
\* replaces the one the caller passed.
WrapWhisper(cause) == <<"Transcription failed", "Whisper transcription failed">> \o cause

TranscribeCall ==
  /\ trNextCall < MaxCalls
  /\ trNextCall' = trNextCall + 1
  /\ LET c == trNextCall + 1 IN
     \E passed \in AudioConfigs, config \in StoredConfigs :
       CASE passed.speechProvider # "whisper" ->
              /\ trLast' = TrDone(c, "browser", NoResponse, TRUE, FALSE, Null, <<>>, 0,
                                  passed.language, "unread", NoPath)
              /\ UNCHANGED <<tempFile, trCall>>
         [] passed.speechProvider = "whisper" /\ MissingKey(config) ->
              /\ trLast' = TrDone(c, "whisper", NoResponse, FALSE, TRUE,
                                  WrapWhisper(<<"OpenAI API key is required for Whisper transcription">>),
                                  <<>>, 0, <<>>, config.apiKey, NoPath)
              /\ UNCHANGED <<tempFile, trCall>>
         [] OTHER ->
              /\ tempFile' = [tempFile EXCEPT ![TempPath(now, "wav")] = c]
              /\ trCall' = [trCall EXCEPT ![c] =
                              [pc |-> "fetch", via |-> "whisper",
                               path |-> TempPath(now, "wav"), key |-> config.apiKey,
                               language |-> PrimarySubtag(config.language),
                               asked |-> passed.language, reqs |-> 1]]
              /\ trLast' = NoTrEvent
  /\ UNCHANGED now
  /\ UNCHANGED nonTrVars

\* fs.unlinkSync(path), its failure ignored
Unlinked(files, path) == [files EXCEPT ![path] = 0]

\* fetch settles for call c, and the call runs to its end
HttpSettles(c) ==
  /\ trCall[c].pc = "fetch"
  /\ \E resp \in HttpResponses :
       LET call == trCall[c]
           err == FetchError(resp)
       IN
       IF call.via = "base64"
       THEN \* non-ok status, network error and blank text all reach the inner
            \* catch, which deletes the file and returns a failure result
            LET clean == Trim(resp.body)
                failure == IF err # Null THEN err
                           ELSE IF clean = <<>> THEN <<"Empty transcription received">>
                           ELSE Null
            IN /\ tempFile' = Unlinked(tempFile, call.path)
               /\ trLast' = TrDone(c, "base64", resp, failure = Null, FALSE, failure,
                                   IF failure = Null THEN clean ELSE <<>>, call.reqs,
                                   call.language, call.key, call.path)
       ELSE \* transcribeWithWhisper deletes the file only after a good response
            /\ tempFile' = IF err = Null THEN Unlinked(tempFile, call.path) ELSE tempFile
            /\ trLast' = TrDone(c, "whisper", resp, err = Null, err # Null,
                                IF err # Null THEN WrapWhisper(err) ELSE Null,
                                IF err = Null THEN resp.body ELSE <<>>, call.reqs,
                                call.language, call.key, call.path)
  /\ trCall' = [trCall EXCEPT ![c] = NoTrCall]
  /\ UNCHANGED <<now, trNextCall>>
  /\ UNCHANGED nonTrVars

TrNext ==
  \/ Tick
  \/ TranscribeBase64Call
  \/ TranscribeCall
  \/ \E c \in CallIds : HttpSettles(c)

\* ------------------------------------------------------ AudioHelper.cleanup
\* File names are sequences of name parts; the sweep looks at the first part.
FileNames ==
  {<<"recording_", "1.webm">>, <<"temp_", "1.wav">>, <<"notes_", "temp_">>,
   <<"temp_", "other.dat">>}

\* a file that another program keeps in the system temp directory
ForeignFiles == {<<"temp_", "other.dat">>}

\* the order in which readdirSync lists the directory
Listing ==
  << <<"notes_", "temp_">>, <<"recording_", "1.webm">>, <<"temp_", "1.wav">>,
     <<"temp_", "other.dat">> >>

\* the constructor and ensureTempDir: the subdirectory 'interview-coder-audio'
\* of os.tmpdir(), or os.tmpdir() itself when the subdirectory cannot be made
ensureTempDir(mkdirFails) == IF mkdirFails THEN "system" ELSE "scratch"

\* `file.startsWith(prefix)`
StartsWith(file, prefix) == Len(file) >= 1 /\ file[1] = prefix

\* a prefix test that accepts any name holding the prefix
StartsWith_Anywhere(file, prefix) == \E i \in 1..Len(file) : file[i] = prefix

\* `60 * 60 * 1000`
OneHour == 60 * 60 * 1000

OneMinute == 60 * 1000

\* the steps by which the clock moves between two operations
ClockSteps == {OneMinute, OneHour}

\* a file that does not exist
Absent == -1

\* an age test that also removes a file exactly one hour old
Older_OrEqual(mtime, oneHourAgo) == mtime <= oneHourAgo

\* `stats.mtime.getTime() < oneHourAgo`
Older(mtime, oneHourAgo) == mtime < oneHourAgo

\* what can go wrong with one file, and with the directory
FileFaults == {"none", "stat", "unlink"}
DirFaults == {"none", "missing", "readdir"}

NoCleanup == [op |-> "none"]

ClnInitWith(mkdirFails) ==
  /\ tempDir = [f \in FileNames |-> Absent]
  /\ tempDirIs = ensureTempDir(mkdirFails)
  /\ sweepNow = 0
  /\ sweepTicks = 0
  /\ cleanupLast = NoCleanup

ClnInit == ClnInitWith(FALSE)

\* a recording or a transcription call writes a file of the scratch directory
\* (fs.writeFileSync sets its modification time), or something else does; the
\* other program's file is written before the clock moves, and only the system
\* temp directory holds it
WriteFile(f) ==
  /\ f \in ForeignFiles => (tempDirIs = "system" /\ sweepTicks = 0)
  /\ tempDir[f] # sweepNow
  /\ tempDir' = [tempDir EXCEPT ![f] = sweepNow]
  /\ cleanupLast' = NoCleanup
  /\ UNCHANGED <<sweepNow, sweepTicks, tempDirIs>>
  /\ UNCHANGED nonClnVars

\* time passes
ClockStep(d) ==
  /\ sweepTicks < MaxSweepTicks
  /\ sweepTicks' = sweepTicks + 1
  /\ sweepNow' = sweepNow + d
  /\ cleanupLast' = NoCleanup
  /\ UNCHANGED <<tempDir, tempDirIs>>
  /\ UNCHANGED nonClnVars

\* the catch of the loop body that lets the failure out of the sweep
OnFileError_Raises(acc) == [acc EXCEPT !.threw = TRUE]

\* `catch (fileError) { console.warn(...) }`
OnFileError(acc) == acc

\* one iteration of `for (const file of files)`
SweepFile(acc, file, t, faults) ==
  IF acc.threw THEN acc
  ELSE IF StartsWith(file, "recording_") \/ StartsWith(file, "temp_")
  THEN IF faults[file] = "stat" THEN OnFileError(acc)
       ELSE IF Older(acc.dir[file], t - OneHour)
            THEN IF faults[file] = "unlink" THEN OnFileError(acc)
                 ELSE [acc EXCEPT !.dir[file] = Absent,
                                  !.filesRemoved = acc.filesRemoved + 1]
            ELSE acc
  ELSE acc

RECURSIVE SweepFiles(_, _, _, _)
\* the loop over the listed files
SweepFiles(acc, files, t, faults) ==
  IF files = <<>> THEN acc
  ELSE SweepFiles(SweepFile(acc, Head(files), t, faults), Tail(files), t, faults)

\* `fs.readdirSync(this.tempDir)`: the files that exist, in listing order
Readdir(dir) == SelectSeq(Listing, LAMBDA f : dir[f] # Absent)

\* AudioHelper.cleanup(), a synchronous sweep
Cleanup ==
  \E dirFault \in DirFaults, faults \in [FileNames -> FileFaults] :
    /\ dirFault = "missing" => \A f \in FileNames : tempDir[f] = Absent
    /\ \A f \in FileNames : tempDir[f] = Absent => faults[f] = "none"
    /\ \A f \in ForeignFiles : faults[f] = "none"
    /\ LET start == [dir |-> tempDir, filesRemoved |-> 0, threw |-> FALSE]
           end == IF dirFault = "none"
                  THEN SweepFiles(start, Readdir(tempDir), sweepNow, faults)
                  ELSE start
       IN /\ tempDir' = end.dir
          /\ cleanupLast' = [op |-> "cleanup", before |-> tempDir, now |-> sweepNow,
                             faults |-> faults, dirFault |-> dirFault,
                             threw |-> end.threw,
                             success |-> dirFault # "readdir",
                             filesRemoved |-> end.filesRemoved]
    /\ UNCHANGED <<sweepNow, sweepTicks, tempDirIs>>
    /\ UNCHANGED nonClnVars

ClnNext ==
  \/ \E f \in FileNames : WriteFile(f)
  \/ \E d \in ClockSteps : ClockStep(d)
  \/ Cleanup

\* ------------------------------------------------- the audio configuration
\* the record every load falls back to
DefaultAudioConfig ==
  [inputDevice |-> "", inputGain |-> 100, noiseReduction |-> TRUE,
   voiceActivation |-> FALSE, voiceActivationThreshold |-> 30,
   speechProvider |-> "whisper", language |-> "en-US", autoProcessVoice |-> FALSE,
   showTranscriptionRealTime |-> TRUE, enableWaveformVisualization |-> TRUE,
   transcriptionFontSize |-> "medium"]

\* the eleven fields of AudioConfig and their types
Fields == DOMAIN DefaultAudioConfig

FieldType ==
  [inputDevice |-> "string", inputGain |-> "number", noiseReduction |-> "boolean",
   voiceActivation |-> "boolean", voiceActivationThreshold |-> "number",
   speechProvider |-> "string", language |-> "string", autoProcessVoice |-> "boolean",
   showTranscriptionRealTime |-> "boolean", enableWaveformVisualization |-> "boolean",
   transcriptionFontSize |-> "string"]

\* the values the controls of the settings panel hand to handleConfigUpdate
ControlValues ==
  [inputDevice |-> {"", "mic-1"}, inputGain |-> {50, 100}, noiseReduction |-> BOOLEAN,
   voiceActivation |-> BOOLEAN, voiceActivationThreshold |-> {10, 30},
   speechProvider |-> {"whisper", "browser"}, language |-> {"en-US", "en-GB"},
   autoProcessVoice |-> BOOLEAN, showTranscriptionRealTime |-> BOOLEAN,
   enableWaveformVisualization |-> BOOLEAN,
   transcriptionFontSize |-> {"small", "medium"}]

\* the updates of the panel: one field per control, all fields for the reset
\* button
Updates ==
  UNION {{[g \in {f} |-> v] : v \in ControlValues[f]} : f \in Fields}
    \cup {DefaultAudioConfig}

\* a record with fewer fields, saved by a caller that does not hold a full
\* record (the save channel takes any value)
PartialRecords == {[g \in {"inputGain"} |-> 50]}

\* a spread that lets the old record win
Merge_KeepsOld(c, u) ==
  [f \in DOMAIN c \cup DOMAIN u |-> IF f \in DOMAIN c THEN c[f] ELSE u[f]]

\* `{ ...config, ...updates }`
Merge(c, u) ==
  [f \in DOMAIN c \cup DOMAIN u |-> IF f \in DOMAIN u THEN u[f] ELSE c[f]]

\* JSON text of a record: its member names with the text of their values
NumberRange == 0..200

StringValues == UNION {ControlValues[f] : f \in {g \in Fields : FieldType[g] = "string"}}

Quote(str) == "\"" \o str \o "\""

StringifyValue(f, v) ==
  CASE FieldType[f] = "string" -> Quote(v)
    [] FieldType[f] = "number" -> ToString(v)
    [] FieldType[f] = "boolean" -> IF v THEN "true" ELSE "false"

ParseValue(f, text) ==
  CASE FieldType[f] = "string" -> CHOOSE str \in StringValues : Quote(str) = text
    [] FieldType[f] = "number" -> CHOOSE n \in NumberRange : ToString(n) = text
    [] FieldType[f] = "boolean" -> text = "true"

\* `JSON.stringify(config)`
JSONStringify(r) == [f \in DOMAIN r |-> StringifyValue(f, r[f])]

\* `JSON.parse(saved)`
JSONParse(text) == [f \in DOMAIN text |-> ParseValue(f, text[f])]

\* an empty slot or item, and a filled one
Nothing == [has |-> FALSE]
Stored(v) == [has |-> TRUE, value |-> v]

NoSave == [ok |-> FALSE]
NoCfgEvent == [op |-> "none"]

CfgInit ==
  /\ cfgSlot = Nothing
  /\ lsItem = Nothing
  /\ cfgSaves = 0
  /\ lastSave = NoSave
  /\ cfgLast = NoCfgEvent

\* a fallback that hands out whatever the slot holds
OrDefault_Never(slot) == IF slot.has THEN slot.value ELSE <<>>

\* `config.audioConfig || { ...defaults }`
OrDefault(slot) == IF slot.has THEN slot.value ELSE DefaultAudioConfig

\* AudioHelper.loadAudioConfig; threw: configHelper.loadConfig() throws
loadAudioConfig(threw) == IF threw THEN DefaultAudioConfig ELSE OrDefault(cfgSlot)

\* the 'audio:load-config' handler
LoadConfigIpc(threw) == loadAudioConfig(threw)

\* AudioService.loadConfig; fault: the invoke rejects, or getItem throws
loadConfig(fault, threw) ==
  IF fault THEN DefaultAudioConfig
  ELSE IF hasElectron THEN LoadConfigIpc(threw)
  ELSE IF lsItem.has THEN JSONParse(lsItem.value)
  ELSE DefaultAudioConfig

\* AudioService.saveConfig, through 'audio:save-config' and
\* AudioHelper.saveAudioConfig when the bridge exists; fault: updateConfig or
\* setItem throws, and the store keeps what it held
saveConfig(config, fault) ==
  /\ cfgSaves < MaxSaves
  /\ cfgSaves' = cfgSaves + 1
  /\ IF fault THEN UNCHANGED <<cfgSlot, lsItem>>
     ELSE IF hasElectron
     THEN cfgSlot' = Stored(config) /\ UNCHANGED lsItem
     ELSE lsItem' = Stored(JSONStringify(config)) /\ UNCHANGED cfgSlot

\* the settings panel: handleConfigUpdate on the record the panel shows, saved
\* by the panel's owner
handleConfigUpdate(u) ==
  \E fault \in BOOLEAN :
    LET config == loadConfig(FALSE, FALSE)
        merged == Merge(config, u)
    IN /\ saveConfig(merged, fault)
       /\ lastSave' = IF fault THEN lastSave
                      ELSE [ok |-> TRUE, config |-> config, updates |-> u]
       /\ cfgLast' = [op |-> "save", ok |-> ~fault,
                      error |-> IF fault THEN <<"Failed to save audio config", "Error">>
                                ELSE Null]
       /\ UNCHANGED nonCfgVars

\* saveConfig called with a record that is not a full AudioConfig
SaveDirect(r) ==
  /\ saveConfig(r, FALSE)
  /\ lastSave' = NoSave
  /\ cfgLast' = [op |-> "save", ok |-> TRUE, error |-> Null]
  /\ UNCHANGED nonCfgVars

\* what a load reports: the path taken, whether the store held nothing for
\* it, whether something threw, and the record returned
Loaded(via, empty, failed, result) ==
  [op |-> "load", via |-> via, empty |-> empty, failed |-> failed, result |-> result]

Load(via) ==
  \E fault \in BOOLEAN, threw \in BOOLEAN :
    /\ via \in {"helper", "handler"} => hasElectron /\ ~fault
    /\ ~hasElectron => ~threw
    /\ cfgLast' = Loaded(via,
                         IF hasElectron THEN ~cfgSlot.has ELSE ~lsItem.has,
                         fault \/ threw,
                         CASE via = "helper" -> loadAudioConfig(threw)
                           [] via = "handler" -> LoadConfigIpc(threw)
                           [] via = "service" -> loadConfig(fault, threw))
    /\ UNCHANGED <<cfgSlot, lsItem, cfgSaves, lastSave>>
    /\ UNCHANGED nonCfgVars

LoadPaths == {"helper", "handler", "service"}

CfgNext ==
  \/ \E u \in Updates : handleConfigUpdate(u)
  \/ \E r \in PartialRecords : SaveDirect(r)
  \/ \E via \in LoadPaths : Load(via)

\* ---------------------------------- AudioService.transcribeWithBrowser
\* the delays of the two setTimeout calls, in milliseconds
RecognitionTimeout == 30000
EndDelay == 100

ErrNotSupported == <<"Browser speech recognition not supported">>
ErrSetupFailed == <<"Browser transcription setup failed", "InvalidStateError">>
ErrNoResults == <<"No speech recognition results">>
ErrEndedWithoutResults == <<"Speech recognition ended without results">>
ErrTimeout == <<"Speech recognition timeout">>
RecognitionErrors == {"no-speech", "aborted"}
ErrRecognition(e) == <<"Speech recognition error", e>>

\* confidences the platform reports, in tenths; 0: none reported
Confidences == {0, 5}

\* `result[0].confidence || 0.8`
DefaultConfidence == 8
ConfidenceOr(c) == IF c = 0 THEN DefaultConfidence ELSE c

NoPromise == [state |-> "none"]
Pending == [state |-> "pending"]
Resolved(text, confidence) ==
  [state |-> "resolved", text |-> text, confidence |-> confidence]
RejectedWith(err) == [state |-> "rejected", error |-> err]

\* resolve / reject: only the first call settles the promise
Settle(promise, outcome) == IF promise.state = "pending" THEN outcome ELSE promise

Unarmed == [armed |-> FALSE, due |-> 0]
Timer(due) == [armed |-> TRUE, due |-> due]

\* a start that arms no timeout
TimeoutTimer_Unarmed(t) == Unarmed

\* `setTimeout(() => {...}, 30000)`
TimeoutTimer(t) == Timer(t + RecognitionTimeout)

NoBrEvent == [op |-> "none"]

BrInit ==
  /\ brPromise = NoPromise
  /\ brRecog = "none"
  /\ brTimeout = Unarmed
  /\ brEndTimer = Unarmed
  /\ brNow = 0
  /\ brHeard = FALSE
  /\ brLast = NoBrEvent

\* the executor of the promise, up to its end
transcribeWithBrowser ==
  /\ brPromise = NoPromise
  /\ \E supported \in BOOLEAN, startThrows \in BOOLEAN :
       /\ ~supported => ~startThrows
       /\ brPromise' = IF ~supported THEN RejectedWith(ErrNotSupported)
                       ELSE IF startThrows THEN RejectedWith(ErrSetupFailed)
                       ELSE Pending
       /\ brRecog' = IF ~supported THEN "none"
                     ELSE IF startThrows THEN "created" ELSE "active"
       /\ brTimeout' = IF supported /\ ~startThrows THEN TimeoutTimer(brNow)
                       ELSE Unarmed
       /\ brLast' = [op |-> "call", supported |-> supported, started |-> ~startThrows]
  /\ UNCHANGED <<brEndTimer, brNow, brHeard>>
  /\ UNCHANGED nonBrVars

\* recognition.onresult; with continuous = false the recognition delivers
\* one result and then ends
RecogResult ==
  /\ brRecog = "active"
  /\ \E hasResult \in BOOLEAN, text \in Transcripts, c \in Confidences :
       /\ ~hasResult => (text = <<>> /\ c = 0)
       /\ brPromise' = Settle(brPromise,
                              IF hasResult THEN Resolved(text, ConfidenceOr(c))
                              ELSE RejectedWith(ErrNoResults))
       /\ brLast' = [op |-> "result", was |-> brPromise.state]
  /\ brRecog' = "ending"
  /\ brHeard' = TRUE
  /\ UNCHANGED <<brTimeout, brEndTimer, brNow>>
  /\ UNCHANGED nonBrVars

\* recognition.onerror; an aborted recognition reports the error 'aborted'
RecogError ==
  /\ brRecog \in {"active", "aborting"}
  /\ \E e \in RecognitionErrors :
       /\ e = "aborted" <=> brRecog = "aborting"
       /\ brPromise' = Settle(brPromise, RejectedWith(ErrRecognition(e)))
       /\ brLast' = [op |-> "error", was |-> brPromise.state]
  /\ brRecog' = "ending"
  /\ brHeard' = TRUE
  /\ UNCHANGED <<brTimeout, brEndTimer, brNow>>
  /\ UNCHANGED nonBrVars

\* recognition.onend
RecogEnd ==
  /\ brRecog \in {"active", "aborting", "ending"}
  /\ brRecog' = "ended"
  /\ brEndTimer' = Timer(brNow + EndDelay)
  /\ brHeard' = TRUE
  /\ brLast' = [op |-> "end", was |-> brPromise.state]
  /\ UNCHANGED <<brPromise, brTimeout, brNow>>
  /\ UNCHANGED nonBrVars

\* the callback of the 100 ms timer set by onend
EndTimerFires ==
  /\ brEndTimer.armed /\ brNow >= brEndTimer.due
  /\ brEndTimer' = Unarmed
  /\ brPromise' = Settle(brPromise, RejectedWith(ErrEndedWithoutResults))
  /\ brLast' = [op |-> "endTimer", was |-> brPromise.state]
  /\ UNCHANGED <<brRecog, brTimeout, brNow, brHeard>>
  /\ UNCHANGED nonBrVars

\* the callback of the 30 s timer: recognition.abort(), then reject
TimeoutFires ==
  /\ brTimeout.armed /\ brNow >= brTimeout.due
  /\ brTimeout' = Unarmed
  /\ brRecog' = IF brRecog \in {"active", "ending"} THEN "aborting" ELSE brRecog
  /\ brPromise' = Settle(brPromise, RejectedWith(ErrTimeout))
  /\ brLast' = [op |-> "timeout", was |-> brPromise.state, heard |-> brHeard,
                at |-> brNow, due |-> brTimeout.due]
  /\ UNCHANGED <<brEndTimer, brNow, brHeard>>
  /\ UNCHANGED nonBrVars

\* the due times of the armed timers
DueTimes == {t.due : t \in {x \in {brTimeout, brEndTimer} : x.armed}}

Min(a, b) == IF a <= b THEN a ELSE b

\* time passes while a timer is armed, up to the next due timer
BrTick ==
  /\ DueTimes # {}
  /\ \A d \in DueTimes : brNow < d
  /\ \E n \in {Min(brNow + BrStep, d) : d \in DueTimes \cup {brNow + BrStep}} :
       /\ \A d \in DueTimes : n <= d
       /\ brNow' = n
  /\ brLast' = NoBrEvent
  /\ UNCHANGED <<brPromise, brRecog, brTimeout, brEndTimer, brHeard>>
  /\ UNCHANGED nonBrVars

BrNext ==
  \/ transcribeWithBrowser
  \/ RecogResult
  \/ RecogError
  \/ RecogEnd
  \/ EndTimerFires
  \/ TimeoutFires
  \/ BrTick

\* ------------------------------------------------- the recording format
\* the types either preference list names
MimeTypes ==
  {"audio/wav", "audio/webm;codecs=opus", "audio/webm", "audio/mp4",
   "audio/ogg;codecs=opus"}

\* the `types` array of AudioService.getSupportedMimeType
SvcTypes ==
  <<"audio/webm", "audio/webm;codecs=opus", "audio/ogg;codecs=opus", "audio/wav">>

\* the `preferredTypes` array of AudioCapture.startListening
preferredTypes ==
  <<"audio/wav", "audio/webm;codecs=opus", "audio/webm", "audio/mp4",
    "audio/ogg;codecs=opus">>

RECURSIVE FirstSupported(_, _, _)
\* `for (const type of types) if (MediaRecorder.isTypeSupported(type)) ...`:
\* the first supported entry, or none when the loop ends
FirstSupported(types, supported, none) ==
  IF types = <<>> THEN none
  ELSE IF Head(types) \in supported THEN Head(types)
  ELSE FirstSupported(Tail(types), supported, none)

\* AudioService.getSupportedMimeType, with its fallback
getSupportedMimeType(supported) == FirstSupported(SvcTypes, supported, "audio/webm")

\* AudioCapture: mimeType stays '' when nothing is supported
CapMimeType(supported) == FirstSupported(preferredTypes, supported, "")

\* `mimeType || 'audio/webm'`
CapBlobType(mimeType) == IF mimeType = "" THEN "audio/webm" ELSE mimeType

NoFormat == [phase |-> "idle", chosen |-> "", blob |-> ""]

\* no session yet, on a platform that supports the types in S
MimeInitOn(S) ==
  /\ mimeSupported = S
  /\ svcMime = NoFormat
  /\ capMime = NoFormat

\* Electron's Chromium records WebM
MimeInit == MimeInitOn({"audio/webm", "audio/webm;codecs=opus"})

\* AudioService.startRecording builds the recorder's options
SvcChoosesFormat ==
  /\ svcMime.phase = "idle"
  /\ svcMime' = [phase |-> "recording", chosen |-> getSupportedMimeType(mimeSupported),
                 blob |-> ""]
  /\ UNCHANGED <<mimeSupported, capMime>>
  /\ UNCHANGED nonMimeVars

\* AudioService's onstop builds the blob
SvcTagsBlob ==
  /\ svcMime.phase = "recording"
  /\ svcMime' = [svcMime EXCEPT !.phase = "stopped",
                                !.blob = getSupportedMimeType(mimeSupported)]
  /\ UNCHANGED <<mimeSupported, capMime>>
  /\ UNCHANGED nonMimeVars

\* AudioCapture.startListening picks mimeType
CapChoosesFormat ==
  /\ capMime.phase = "idle"
  /\ capMime' = [phase |-> "recording", chosen |-> CapMimeType(mimeSupported),
                 blob |-> ""]
  /\ UNCHANGED <<mimeSupported, svcMime>>
  /\ UNCHANGED nonMimeVars

\* AudioCapture's onstop builds the blob from the mimeType of its closure
CapTagsBlob ==
  /\ capMime.phase = "recording"
  /\ capMime' = [capMime EXCEPT !.phase = "stopped", !.blob = CapBlobType(capMime.chosen)]
  /\ UNCHANGED <<mimeSupported, svcMime>>
  /\ UNCHANGED nonMimeVars

MimeNext ==
  \/ SvcChoosesFormat
  \/ SvcTagsBlob
  \/ CapChoosesFormat
  \/ CapTagsBlob

\* ========================================================= specifications
Init == SvcInit /\ CapInit /\ TrInit /\ ClnInit /\ CfgInit /\ BrInit /\ MimeInit

Next == SvcNext \/ CapNext \/ TrNext \/ ClnNext \/ CfgNext \/ BrNext \/ MimeNext

Spec == Init /\ [][Next]_vars

SpecSvc == Init /\ [][SvcNext]_vars

\* AudioCapture runs in the Electron renderer, where window.electronAPI exists
InitCap == Init /\ hasElectron = TRUE

SpecCap == InitCap /\ [][CapNext]_vars

SpecTr == Init /\ [][TrNext]_vars

\* the sweep, whether or not the scratch subdirectory could be created
InitCln ==
  /\ SvcInit /\ CapInit /\ TrInit /\ CfgInit /\ BrInit /\ MimeInit
  /\ \E mkdirFails \in BOOLEAN : ClnInitWith(mkdirFails)

SpecCln == InitCln /\ [][ClnNext]_vars

SpecCfg == Init /\ [][CfgNext]_vars

\* the recording formats, on every platform
InitMime ==
  /\ SvcInit /\ CapInit /\ TrInit /\ ClnInit /\ CfgInit /\ BrInit
  /\ \E S \in SUBSET MimeTypes : MimeInitOn(S)

SpecMime == InitMime /\ [][MimeNext]_vars

\* The renderer's event loop runs every timer callback that is due, and time
\* passes; recognition events may never come.
SpecBr ==
  /\ Init /\ [][BrNext]_vars
  /\ WF_vars(BrTick) /\ WF_vars(EndTimerFires) /\ WF_vars(TimeoutFires)

\* ================================================================= claims
RECURSIVE BlobSize(_)
\* the size of a Blob built from a sequence of chunks
BlobSize(chunks) ==
  IF chunks = <<>> THEN 0 ELSE Head(chunks).size + BlobSize(Tail(chunks))

\* C1: a startRecording call made while a recording is in progress (the
\* isRecording flag is set, or the recorder of a started session is recording)
\* fails with the 'Recording is already in progress' error, and a stopRecording
\* call made while none is in progress fails with the 'No recording in progress'
\* error, whatever calls came before; in AudioService (where the error is
\* wrapped by the call's catch block) and in AudioHelper.
C1_GuardErrors ==
  /\ (svcLast.op = "start" /\ (svcLast.pre \/ svcLast.active)) =>
        (~svcLast.ok /\ svcLast.err = WrapStartError(ErrAlreadyRecording))
  /\ (svcLast.op = "stop" /\ ~svcLast.pre /\ ~svcLast.active) =>
        (~svcLast.ok /\ svcLast.err = WrapStopError(ErrNotRecording))
  /\ (helperLast.op = "start" /\ helperLast.pre) =>
        (~helperLast.ok /\ helperLast.err = ErrAlreadyRecording)
  /\ (helperLast.op = "stop" /\ ~helperLast.pre) =>
        (~helperLast.ok /\ helperLast.err = ErrNotRecording)

\* the same with "in progress" read as the isRecording flag alone
FlagGuardErrors ==
  /\ (svcLast.op = "start" /\ svcLast.pre) =>
        (~svcLast.ok /\ svcLast.err = WrapStartError(ErrAlreadyRecording))
  /\ (svcLast.op = "stop" /\ ~svcLast.pre) =>
        (~svcLast.ok /\ svcLast.err = WrapStopError(ErrNotRecording))
  /\ (helperLast.op = "start" /\ helperLast.pre) =>
        (~helperLast.ok /\ helperLast.err = ErrAlreadyRecording)
  /\ (helperLast.op = "stop" /\ ~helperLast.pre) =>
        (~helperLast.ok /\ helperLast.err = ErrNotRecording)

\* C2: a startRecording rejected because a session is active leaves that
\* session as it was: stream, recorder, chunks and flag in AudioService,
\* isRecording and audioFilePath in AudioHelper.
C2_RejectedStartKeepsSession ==
  /\ (svcLast.op = "start" /\ svcLast.pre /\ ~svcLast.ok) =>
        svcLast.after = svcLast.before
  /\ (helperLast.op = "start" /\ helperLast.pre /\ ~helperLast.ok) =>
        helperLast.after = helperLast.before

\* C3: AudioCapture never starts a capture while isProcessing is true, and two
\* processAudioBlob runs are never in flight together.
C3_OnePipelineAtATime ==
  /\ (capEvent.op = "start") => (~capEvent.processing /\ capEvent.inFlight = {})
  /\ Cardinality(InFlight) <= 1

\* nothing of AudioCapture is pending: no getUserMedia call, no recording or
\* stopping recorder, no processAudioBlob run
Quiescent ==
  /\ pendingGum = 0
  /\ \A r \in CapIds :
       capRecState[r] # "recording" /\ capRecEvq[r] = <<>> /\ pipe[r].pc = "idle"

IsBlank(t) == \A i \in 1..Len(t) : t[i] = " "

\* C5: a processAudioBlob run whose transcription succeeds with an empty or
\* whitespace-only transcript finishes with isProcessing false and without
\* setting an error, and calls neither loadConfig nor processQuestion nor
\* onQuestionProcessed.
C5_BlankTranscriptStops ==
  (capEvent.op = "finished" /\ capEvent.tr = "ok" /\ IsBlank(capEvent.text)) =>
     /\ ~isProcessing
     /\ capEvent.setErr = Null
     /\ capEvent.stage = "transcribe"
     /\ \A i \in 1..Len(capEvent.calls) :
          capEvent.calls[i] \notin {"loadConfig", "processQuestion"}
     /\ capEvent.chain = NoChain

C5_Witness ==
  /\ capEvent.op = "finished" /\ capEvent.tr = "ok"
  /\ capEvent.text = <<" ">>
  /\ capEvent.calls = <<"transcribeAudio", "onTranscriptionComplete">>

\* C6: when the solver succeeds with a solution, the run sets no error and that
\* same solution is received exactly once by AudioCapture's onQuestionProcessed,
\* by AudioManager.handleQuestionProcessed and by
\* Queue.handleAudioQuestionProcessed.
C6_SolutionPassedUnchanged ==
  (capEvent.op = "finished" /\ capEvent.out.kind = "ok") =>
     /\ capEvent.setErr = Null
     /\ capEvent.chain.atCapture = <<capEvent.out.solution>>
     /\ capEvent.chain.atManager = <<capEvent.out.solution>>
     /\ capEvent.chain.atQueue = <<capEvent.out.solution>>

C6_Witness ==
  /\ capEvent.op = "finished" /\ capEvent.out.kind = "ok"
  /\ capEvent.out.solution = <<"solution">>
  /\ capEvent.chain.atParent = <<<<"solution">>>>

\* C7: when the solver returns {success: false, error: m} with m non-empty, the
\* run sets the error state to exactly m and onQuestionProcessed is not invoked.
C7_SolverErrorShown ==
  (capEvent.op = "finished" /\ capEvent.out.kind = "fail"
     /\ capEvent.out.error # Null) =>
        /\ capEvent.setErr = capEvent.out.error
        /\ error = capEvent.out.error
        /\ capEvent.chain.atCapture = <<>>

C7_Witness ==
  /\ capEvent.op = "finished" /\ capEvent.out.kind = "fail"
  /\ error = <<"rate limited">>

\* AudioService.stopRecording does not succeed with an empty blob
SvcEmptyCaptureFails ==
  (svcLast.op = "stop" /\ svcLast.ok) => BlobSize(svcLast.blob) > 0

\* AudioCapture's onstop with nothing buffered sets 'No audio data captured'
\* and starts no processAudioBlob run
CapEmptyCaptureFails ==
  (capEvent.op = "onstop" /\ BlobSize(capEvent.blob) = 0) =>
     (~capEvent.piped /\ error = <<"No audio data captured">>
        /\ pipe[capEvent.rec].pc = "idle")

\* C8: stopping a session that buffered zero bytes fails with the empty-capture
\* error and requests no transcription, in AudioService.stopRecording and in
\* AudioCapture's onstop.
C8_EmptyCaptureFails == SvcEmptyCaptureFails /\ CapEmptyCaptureFails

\* a stopRecording of a session that delivered chunks returns exactly them
SvcBlobIsSessionChunks ==
  (svcLast.op = "stop" /\ svcLast.pre /\ svcLast.rec # 0
     /\ delivered[svcLast.rec] # <<>>) =>
        (svcLast.ok /\ svcLast.blob = delivered[svcLast.rec])

\* the onstop of a recorder that delivered chunks builds its blob from exactly them
CapBlobIsSessionChunks ==
  (capEvent.op = "onstop" /\ capDelivered[capEvent.rec] # <<>>) =>
     (capEvent.piped /\ capEvent.blob = capDelivered[capEvent.rec])

\* C9: stopping a session that delivered at least one non-empty chunk succeeds,
\* and the blob is exactly the non-empty chunks delivered during that session,
\* in arrival order (so its size is their sum); in AudioService.stopRecording
\* and in AudioCapture's onstop.
C9_BlobIsSessionChunks == SvcBlobIsSessionChunks /\ CapBlobIsSessionChunks

\* the message err contains the parts x, in order and next to each other
Carries(err, x) ==
  \E i \in 1..Len(err) : i + Len(x) - 1 <= Len(err) /\ SubSeq(err, i, i + Len(x) - 1) = x

\* C10: when the speech endpoint answers a transcription request with a status
\* outside 200..299, the call fails (a failure result from
\* transcribeAudioFromBase64, a thrown error from transcribeAudio), its error
\* message carries that status code followed by the response body, and the call
\* issued exactly one HTTP request.
C10_UpstreamErrorNoRetry ==
  (trLast.op = "done" /\ trLast.resp.kind = "status"
     /\ trLast.resp.status \notin 200..299) =>
        /\ ~trLast.ok
        /\ Carries(trLast.error, <<ToString(trLast.resp.status)>> \o trLast.resp.body)
        /\ trLast.reqs = 1

\* a 401 answer has just been reported by a call that went through Whisper
C10_Witness ==
  /\ trLast.op = "done" /\ trLast.via = "whisper"
  /\ trLast.resp.kind = "status" /\ trLast.resp.status = 401
  /\ trLast.threw
  /\ trLast.error = WrapWhisper(<<"OpenAI API error", "401", "Unauthorized">>)

\* C17: a remote transcription call that finds no API key configured fails
\* with the missing-credential error, having written no temporary file and
\* issued no HTTP request; in transcribeAudioFromBase64 (a failure result) and
\* in transcribeWithWhisper (a thrown error).
C17_MissingKeyFailsFirst ==
  (trLast.op = "done" /\ trLast.via \in {"base64", "whisper"} /\ trLast.key = "") =>
     /\ ~trLast.ok
     /\ \/ trLast.error = <<"OpenAI API key is required for transcription">>
        \/ trLast.error =
             WrapWhisper(<<"OpenAI API key is required for Whisper transcription">>)
     /\ trLast.reqs = 0
     /\ trLast.path = NoPath
     /\ \A p \in TempPaths : tempFile[p] # trLast.call

\* a Whisper call has just failed for want of a key, after an earlier call
C17_Witness ==
  /\ trLast.op = "done" /\ trLast.via = "whisper" /\ trLast.key = ""
  /\ trLast.threw /\ trLast.reqs = 0
  /\ trLast.call = 2

\* C18: a remote transcription whose returned text is blank after trimming
\* fails with the empty-transcript error instead of succeeding with empty
\* text, in transcribeAudioFromBase64 and in transcribeAudio with the whisper
\* provider.
C18_BlankTextFails ==
  (trLast.op = "done" /\ trLast.via \in {"base64", "whisper"}
     /\ trLast.resp.kind = "status" /\ trLast.resp.status = 200
     /\ IsBlank(trLast.resp.body)) =>
        (~trLast.ok /\ Carries(trLast.error, <<"Empty transcription received">>))

\* C19: when a remote transcription call that wrote a temporary file has
\* finished, with success or with any failure, that file no longer exists
\* (deletes succeed); in transcribeAudioFromBase64 and in transcribeWithWhisper.
C19_TempFileDeleted ==
  (trLast.op = "done" /\ trLast.path # NoPath) => tempFile[trLast.path] = 0

\* the files a sweep deleted
Deleted == {f \in FileNames : cleanupLast.before[f] # Absent /\ tempDir[f] = Absent}

\* C12: a sweep deletes a file of the scratch directory only if its name
\* starts with 'recording_' or 'temp_' and its modification time is more than
\* one hour before the sweep; every other file still exists, unchanged, after
\* the sweep.
C12_SweepDeletesOnlyOldScratch ==
  cleanupLast.op = "cleanup" =>
    \A f \in FileNames :
      IF f \in Deleted
      THEN /\ f[1] \in {"recording_", "temp_"}
           /\ cleanupLast.now - cleanupLast.before[f] > OneHour
      ELSE tempDir[f] = cleanupLast.before[f]

\* a sweep deleted a scratch file and kept a scratch file exactly one hour
\* old, one a minute old and a file that only holds 'temp_' inside its name
C12_Witness ==
  /\ cleanupLast.op = "cleanup"
  /\ Deleted # {}
  /\ \E f \in FileNames \ Deleted :
        /\ f[1] \in {"recording_", "temp_"}
        /\ cleanupLast.before[f] # Absent
        /\ cleanupLast.now - cleanupLast.before[f] \in {OneMinute, OneHour}
  /\ cleanupLast.before[<<"notes_", "temp_">>] # Absent
  /\ cleanupLast.now - cleanupLast.before[<<"notes_", "temp_">>] > OneHour

\* C13: a sweep never raises because statSync or unlinkSync threw for a file:
\* it goes on to the remaining files and returns a result whose filesRemoved
\* is the number of files that sweep deleted.
C13_SweepSurvivesFileFailures ==
  cleanupLast.op = "cleanup" =>
    /\ ~cleanupLast.threw
    /\ cleanupLast.filesRemoved = Cardinality(Deleted)
    /\ cleanupLast.dirFault = "none" =>
         \A f \in FileNames :
           (/\ cleanupLast.before[f] # Absent
            /\ cleanupLast.faults[f] = "none"
            /\ f[1] \in {"recording_", "temp_"}
            /\ cleanupLast.now - cleanupLast.before[f] > OneHour) => f \in Deleted

\* statSync threw for the first scratch file listed and the sweep deleted the
\* next one
C13_Witness ==
  /\ cleanupLast.op = "cleanup"
  /\ cleanupLast.faults[<<"recording_", "1.webm">>] \in {"stat", "unlink"}
  /\ cleanupLast.now - cleanupLast.before[<<"recording_", "1.webm">>] > OneHour
  /\ <<"temp_", "1.wav">> \in Deleted
  /\ cleanupLast.filesRemoved = 1

\* C14: a load that finds no stored audio configuration, or whose underlying
\* read throws, returns exactly the default record; through
\* AudioHelper.loadAudioConfig, the 'audio:load-config' handler and
\* AudioService.loadConfig.
C14_EmptyStoreLoadsDefaults ==
  (cfgLast.op = "load" /\ (cfgLast.empty \/ cfgLast.failed)) =>
     cfgLast.result =
       [inputDevice |-> "", inputGain |-> 100, noiseReduction |-> TRUE,
        voiceActivation |-> FALSE, voiceActivationThreshold |-> 30,
        speechProvider |-> "whisper", language |-> "en-US",
        autoProcessVoice |-> FALSE, showTranscriptionRealTime |-> TRUE,
        enableWaveformVisualization |-> TRUE, transcriptionFontSize |-> "medium"]

\* the helper has just loaded from a store that holds no audioConfig slot,
\* a save having failed before
C14_Witness ==
  /\ cfgLast.op = "load" /\ cfgLast.via = "helper"
  /\ cfgLast.empty /\ ~cfgLast.failed
  /\ cfgSaves = 1

\* C15: after the settings panel saved the merge of a full record c with an
\* update u, a load returns a record equal to u on the fields u names and to
\* c on all others; on the Electron store and on localStorage.
C15_SaveThenLoad ==
  (cfgLast.op = "load" /\ ~cfgLast.failed /\ lastSave.ok
     /\ DOMAIN lastSave.config = Fields) =>
        /\ DOMAIN cfgLast.result = Fields
        /\ \A f \in Fields :
             cfgLast.result[f] = IF f \in DOMAIN lastSave.updates
                                 THEN lastSave.updates[f]
                                 ELSE lastSave.config[f]

\* on localStorage, a load after the panel changed the gain of a record whose
\* language had been changed before
C15_Witness ==
  /\ cfgLast.op = "load" /\ ~cfgLast.failed /\ ~hasElectron
  /\ lastSave.ok /\ DOMAIN lastSave.config = Fields
  /\ lastSave.config.language = "en-GB"
  /\ DOMAIN lastSave.updates = {"inputGain"}
  /\ lastSave.updates.inputGain = 50
  /\ cfgLast.result.inputGain = 50 /\ cfgLast.result.language = "en-GB"

\* C16: every record returned by a load has all eleven AudioConfig fields; a
\* stored record that is missing fields resolves to the full default record.
C16_LoadedRecordIsFull ==
  cfgLast.op = "load" =>
    /\ DOMAIN cfgLast.result = Fields
    /\ (~cfgLast.empty /\ ~cfgLast.failed
          /\ DOMAIN (IF hasElectron THEN cfgSlot.value ELSE lsItem.value) # Fields)
         => cfgLast.result = DefaultAudioConfig

\* when the 30 s timer fired with no recognition event delivered before it
TimedOutSilent ==
  (brLast.op = "timeout" /\ ~brLast.heard) =>
     /\ brLast.was = "pending"
     /\ brLast.at = brLast.due
     /\ brRecog = "aborting"
     /\ brPromise = RejectedWith(ErrTimeout)

\* C11: the promise of transcribeWithBrowser never stays pending: when no
\* result, error or end event arrives within 30 seconds of the start, the
\* recognition is aborted and the promise is rejected with the timeout error;
\* in every other order of events the promise settles as well.
C11_BrowserCallSettles ==
  /\ []TimedOutSilent
  /\ (brPromise.state = "pending") ~> (brPromise.state \in {"resolved", "rejected"})

\* the timeout has just fired on a recognition that delivered no event
C11_Witness ==
  /\ brLast.op = "timeout" /\ ~brLast.heard
  /\ brNow = RecognitionTimeout
  /\ brPromise = RejectedWith(ErrTimeout)

\* after a failed AudioService.startRecording the service holds no stream and
\* no recorder, and its flag is false
SvcFailedStartClosed ==
  (svcLast.op = "start" /\ ~svcLast.ok) =>
     (svcStream = 0 /\ svcRecorder = 0 /\ ~svcIsRecording)

\* after a failed AudioCapture.startListening the stream, the audio context
\* and the recorder that start obtained are closed, and isListening is false
CapFailedStartClosed ==
  (capEvent.op = "gum" /\ capEvent.fail # "none") =>
     /\ ~isListening
     /\ capEvent.rec # 0 =>
          /\ ~capTrack[capEvent.rec]
          /\ capCtx[capEvent.rec] # "open"
          /\ capRecState[capEvent.rec] # "recording"

\* C20: a start that fails at any step leaves no partially open session:
\* afterwards no microphone stream, recorder or audio context is held open
\* and the recording/listening flag is false; in AudioCapture.startListening
\* and in AudioService.startRecording.
C20_FailedStartLeavesNothingOpen ==
  SvcFailedStartClosed /\ CapFailedStartClosed

\* C22: the language field of a request that transcribeWithWhisper has sent
\* is the primary subtag of the language of the AudioConfig its caller passed.
C22_LanguageOfPassedConfig ==
  \A c \in CallIds :
    (trCall[c].pc = "fetch" /\ trCall[c].via = "whisper") =>
       trCall[c].language = PrimarySubtag(trCall[c].asked)

\* C24: two remote transcription calls in flight at the same time never use
\* the same temporary file path.
C24_InFlightPathsDiffer ==
  \A c1, c2 \in CallIds :
    (c1 # c2 /\ trCall[c1].pc = "fetch" /\ trCall[c2].pc = "fetch") =>
       trCall[c1].path # trCall[c2].path

\* C21: every way a capture session of AudioCapture ends (stopListening, by
\* the user or at unmount, and the recorder's error event) releases its
\* handles: afterwards the stream, context, analyser and recorder references
\* are cleared, the tracks of the session's stream are stopped and its audio
\* context is closed.
C21_SessionEndReleasesHandles ==
  (capEvent.op \in {"stopListening", "onerror"}) =>
     /\ mediaStreamRef = 0 /\ audioContextRef = 0
     /\ analyserRef = 0 /\ mediaRecorderRef = 0
     /\ capEvent.op = "onerror" =>
          (~capTrack[capEvent.rec] /\ capCtx[capEvent.rec] # "open")

\* C27: in AudioCapture a recorder that getUserMedia's resolution has just
\* started finds isListening true (a stop made while the permission was
\* awaited leaves no recorder running), and every open stream is the one
\* mediaStreamRef holds (a later start leaves no earlier stream unreferenced
\* and open).
C27_NoRecorderWithoutListening ==
  /\ (capEvent.op = "gum" /\ capEvent.fail = "none") => isListening
  /\ \A r \in CapIds : capTrack[r] => mediaStreamRef = r

\* C28: the blob that AudioCapture's onstop builds for a session holds only
\* chunks recorded by that session's recorder, and every chunk that recorder
\* delivered.
C28_BlobOfOneSession ==
  capEvent.op = "onstop" =>
    /\ \A i \in 1..Len(capEvent.blob) : capEvent.blob[i].rec = capEvent.rec
    /\ \A i \in 1..Len(capDelivered[capEvent.rec]) :
         \E j \in 1..Len(capEvent.blob) :
           capEvent.blob[j] = capDelivered[capEvent.rec][i]

\* the steps of processAudioBlob, in order
PipelineSteps ==
  <<"transcribeAudio", "onTranscriptionComplete", "loadConfig", "processQuestion",
    "onQuestionProcessed">>

IsPrefix(a, b) == Len(a) <= Len(b) /\ a = SubSeq(b, 1, Len(a))

\* the steps a finished run made
StepsMade ==
  capEvent.calls \o [i \in 1..Len(capEvent.chain.atCapture) |-> "onQuestionProcessed"]

\* C25: the steps made for one blob are a prefix of transcribeAudio,
\* onTranscriptionComplete, loadConfig, processQuestion, onQuestionProcessed
\* (so they come in that order and each at most once); processQuestion is
\* called only after transcription returned success, and onQuestionProcessed
\* only after processQuestion returned success.
C25_PipelineOrder ==
  /\ \A r \in CapIds : IsPrefix(pipe[r].calls, PipelineSteps)
  /\ capEvent.op = "finished" =>
       /\ IsPrefix(StepsMade, PipelineSteps)
       /\ (\E i \in 1..Len(StepsMade) : StepsMade[i] = "processQuestion")
            => capEvent.tr = "ok"
       /\ (\E i \in 1..Len(StepsMade) : StepsMade[i] = "onQuestionProcessed")
            => capEvent.out.kind \in {"ok", "nohelper"}

\* the run of the second session's blob has made all five steps
C25_Witness ==
  /\ capEvent.op = "finished"
  /\ StepsMade = PipelineSteps
  /\ capEvent.rec = 2

\* C26: for every set of supported formats, a session's encoding is the first
\* supported entry of a list that ranks audio/wav first (so audio/wav
\* whenever it is supported), the blob built at stop carries that encoding,
\* and AudioService and AudioCapture choose the same encoding.
C26_SameEncodingWavFirst ==
  /\ \A m \in {svcMime, capMime} :
       /\ (m.phase # "idle" /\ "audio/wav" \in mimeSupported) => m.chosen = "audio/wav"
       /\ (m.phase = "stopped" /\ mimeSupported # {}) => m.blob = m.chosen
  /\ (svcMime.phase # "idle" /\ capMime.phase # "idle" /\ mimeSupported # {})
       => svcMime.chosen = capMime.chosen

\* C23: when the level monitor cannot be set up (new AudioContext throws),
\* AudioCapture.startListening still creates and starts the recorder.
C23_MonitorFailureKeepsCapture ==
  (capEvent.op = "gum" /\ capEvent.fail = "context") =>
     (mediaRecorderRef = capEvent.rec /\ capRecState[capEvent.rec] = "recording")

\* no call of AudioService is in flight and no recorder event is queued
SvcQuiet ==
  /\ startPc = "idle" /\ stopPc = "idle" /\ ipcQ = <<>>
  /\ \A r \in SessionIds : recEvq[r] = <<>>

\* the main process believes a recording runs that the renderer has no recorder
\* for: startRecording is refused by AudioHelper and stopRecording by
\* AudioService's own guard
Stuck == helperIsRecording /\ ~svcIsRecording /\ svcRecorder = 0

\* C29: after any sequence of AudioService.startRecording and stopRecording
\* calls, once no call is in flight the renderer's isRecording flag equals
\* AudioHelper's, and the pair is not stuck with every start refused as
\* already recording and every stop refused as not recording.
C29_FlagsAgree ==
  (hasElectron /\ directCalls = 0 /\ SvcQuiet) =>
     (svcIsRecording = helperIsRecording /\ ~Stuck)

\* C30: a sweep deletes no file of another program: also when the scratch
\* subdirectory could not be created at construction, the 'temp_' and
\* 'recording_' files that other programs keep in the system temp directory
\* survive it.
C30_SweepSparesForeignFiles ==
  cleanupLast.op = "cleanup" => Deleted \cap ForeignFiles = {}
====
